---------------------------- MODULE Spec2Model ----------------------------
(***************************************************************************)
(* Pyile Manager: the watcher's event pipeline (provenance -> routing ->   *)
(* placement -> rename eligibility -> naming -> rename on disk -> notify), *)
(* the observer registry, the route matcher and the filename sanitizer.    *)
(*                                                                         *)
(* Text is a sequence of one-character strings.  Two characters outside    *)
(* ASCII are written by name: "I_DOT" is U+0130 (capital I with dot        *)
(* above) and "COMB_DOT" is U+0307 (combining dot above).                  *)
(***************************************************************************)
EXTENDS Integers, Sequences, FiniteSets, TLC

(***************************************************************************)
(* Text helpers (Python str semantics)                                     *)
(***************************************************************************)

\* Python's None, as a value that is no text
None == <<"None">>

\* s.startswith(p)
StartsWith(s, p) ==
    /\ Len(p) <= Len(s)
    /\ SubSeq(s, 1, Len(p)) = p

\* sub in s
Contains(s, sub) ==
    \E i \in 0..(Len(s) - Len(sub)) : SubSeq(s, i + 1, i + Len(sub)) = sub

\* s.replace(old, new): non-overlapping occurrences, left to right (old non-empty)
RECURSIVE Replace(_, _, _)
Replace(s, old, new) ==
    IF Len(s) < Len(old) THEN s
    ELSE IF StartsWith(s, old)
         THEN new \o Replace(SubSeq(s, Len(old) + 1, Len(s)), old, new)
         ELSE <<Head(s)>> \o Replace(Tail(s), old, new)

LowerLetters ==
    <<"a","b","c","d","e","f","g","h","i","j","k","l","m",
      "n","o","p","q","r","s","t","u","v","w","x","y","z">>

UpperLetters ==
    <<"A","B","C","D","E","F","G","H","I","J","K","L","M",
      "N","O","P","Q","R","S","T","U","V","W","X","Y","Z">>

Digits == {"0","1","2","3","4","5","6","7","8","9"}

Range(f) == { f[i] : i \in DOMAIN f }

\* c.isalnum(): letters and digits; U+0130 is a letter, U+0307 is a mark
IsAlnum(c) ==
    \/ c \in Range(LowerLetters)
    \/ c \in Range(UpperLetters)
    \/ c \in Digits
    \/ c = "I_DOT"

\* str.lower() of one character: U+0130 lowers to "i" followed by U+0307
LowerChar(c) ==
    IF c \in Range(UpperLetters)
    THEN <<LowerLetters[CHOOSE i \in DOMAIN UpperLetters : UpperLetters[i] = c]>>
    ELSE IF c = "I_DOT" THEN <<"i", "COMB_DOT">>
    ELSE <<c>>

\* s.lower(): each character lowered, the pieces joined (by halves, so that
\* long text does not nest deeply)
RECURSIVE Lower(_)
Lower(s) ==
    IF s = <<>> THEN <<>>
    ELSE IF Len(s) = 1 THEN LowerChar(s[1])
    ELSE LET h == Len(s) \div 2
         IN  Lower(SubSeq(s, 1, h)) \o Lower(SubSeq(s, h + 1, Len(s)))

\* s.lstrip(chars): from the first character not in chars on
LStrip(s, chars) ==
    IF \A i \in 1..Len(s) : s[i] \in chars THEN <<>>
    ELSE LET first == CHOOSE i \in 1..Len(s) :
                        /\ s[i] \notin chars
                        /\ \A k \in 1..(i - 1) : s[k] \in chars
         IN  SubSeq(s, first, Len(s))

\* s.rstrip(chars): up to the last character not in chars
RStrip(s, chars) ==
    IF \A i \in 1..Len(s) : s[i] \in chars THEN <<>>
    ELSE LET last == CHOOSE i \in 1..Len(s) :
                        /\ s[i] \notin chars
                        /\ \A k \in (i + 1)..Len(s) : s[k] \in chars
         IN  SubSeq(s, 1, last)

\* the characters of s at the positions in keep, in order
Pick(s, keep) ==
    [n \in 1..Cardinality(keep) |->
        s[CHOOSE i \in keep : Cardinality({k \in keep : k <= i}) = n]]

\* s.strip(chars)
Strip(s, chars) == RStrip(LStrip(s, chars), chars)

(***************************************************************************)
(* Filename sanitizer (ollama_api.sanitize_filename)                       *)
(***************************************************************************)

\* the length limit of a sanitized name
MaxNameLen == 80

\* "".join(c if c.isalnum() or c == "_" else "_" for c in name)
ReplaceSpecials(name) ==
    [i \in 1..Len(name) |->
        IF IsAlnum(name[i]) \/ name[i] = "_" THEN name[i] ELSE "_"]

\* how many underscores stand directly before position i
UnderscoresBefore(s, i) ==
    IF \A k \in 1..(i - 1) : s[k] = "_" THEN i - 1
    ELSE i - 1 - (CHOOSE k \in 1..(i - 1) :
                    /\ s[k] # "_"
                    /\ \A q \in (k + 1)..(i - 1) : s[q] = "_")

\* sanitized.replace("__", "_"), one pass: scanning left to right, the pairs
\* of a run of underscores are its 1st+2nd, 3rd+4th, ...; each pair leaves one
ReplaceDoubleUnderscore(s) ==
    Pick(s, {i \in 1..Len(s) : s[i] # "_" \/ UnderscoresBefore(s, i) % 2 = 0})

\* while "__" in sanitized: sanitized = sanitized.replace("__", "_")
RECURSIVE CollapseUnderscores(_)
CollapseUnderscores(s) ==
    IF Contains(s, <<"_", "_">>)
    THEN CollapseUnderscores(ReplaceDoubleUnderscore(s))
    ELSE s

\* if len(sanitized) > 80: sanitized = sanitized[:80].rstrip("-_")
Truncate(s) ==
    IF Len(s) > MaxNameLen
    THEN RStrip(SubSeq(s, 1, MaxNameLen), {"-", "_"})
    ELSE s

sanitize_filename(name) ==
    Truncate(Lower(Strip(CollapseUnderscores(ReplaceSpecials(name)), {"_"})))

(***************************************************************************)
(* Route matcher (parse_url_pattern, match_url_to_destination)             *)
(***************************************************************************)

\* the characters re.escape puts a backslash before
ReSpecialChars ==
    {"(", ")", "[", "]", "{", "}", "?", "*", "+", "-", "|", "^", "$",
     "\\", ".", "&", "~", "#", " "}

\* re.escape(pattern)
RECURSIVE ReEscape(_)
ReEscape(pattern) ==
    IF pattern = <<>> THEN <<>>
    ELSE (IF Head(pattern) \in ReSpecialChars
          THEN <<"\\", Head(pattern)>> ELSE <<Head(pattern)>>)
         \o ReEscape(Tail(pattern))

\* r"\{\$var\}", r"[^/]+", r"\{\$\*\}", r".*"
EscapedVarMarker == <<"\\", "{", "\\", "$", "v", "a", "r", "\\", "}">>
SegmentRegex == <<"[", "^", "/", "]", "+">>
EscapedStarMarker == <<"\\", "{", "\\", "$", "\\", "*", "\\", "}">>
AnyRegex == <<".", "*">>

\* a compiled regex is a sequence of tokens
LitTok(c) == [t |-> "lit", c |-> c]
SegTok == [t |-> "seg", c |-> ""]
AnyTok == [t |-> "any", c |-> ""]

\* re.compile on the regex text the replacements produce: a backslash quotes
\* the next character, "[^/]+" and ".*" are the two wildcards
RECURSIVE ReCompile(_)
ReCompile(r) ==
    IF r = <<>> THEN <<>>
    ELSE IF Head(r) = "\\" /\ Len(r) >= 2
         THEN <<LitTok(r[2])>> \o ReCompile(SubSeq(r, 3, Len(r)))
    ELSE IF StartsWith(r, SegmentRegex)
         THEN <<SegTok>> \o ReCompile(SubSeq(r, Len(SegmentRegex) + 1, Len(r)))
    ELSE IF StartsWith(r, AnyRegex)
         THEN <<AnyTok>> \o ReCompile(SubSeq(r, Len(AnyRegex) + 1, Len(r)))
    ELSE <<LitTok(Head(r))>> \o ReCompile(Tail(r))

\* the tokens from index k on match s from position i on (a prefix match)
RECURSIVE MatchFrom(_, _, _, _)
MatchFrom(toks, k, s, i) ==
    IF k > Len(toks) THEN TRUE
    ELSE CASE toks[k].t = "lit" ->
                /\ i <= Len(s)
                /\ s[i] = toks[k].c
                /\ MatchFrom(toks, k + 1, s, i + 1)
           [] toks[k].t = "seg" ->
                \E j \in (i + 1)..(Len(s) + 1) :
                    /\ \A q \in i..(j - 1) : s[q] # "/"
                    /\ MatchFrom(toks, k + 1, s, j)
           [] OTHER ->
                \E j \in i..(Len(s) + 1) : MatchFrom(toks, k + 1, s, j)

\* regex.search(url): a match starting anywhere
ReSearch(toks, url) ==
    \E i \in 1..(Len(url) + 1) : MatchFrom(toks, 1, url, i)

\* parse_url_pattern: the second replace starts again from `escaped`, so the
\* result of the {$var} replacement is dropped
parse_url_pattern(pattern) ==
    LET escaped == ReEscape(pattern)
        regex_pattern_1 == Replace(escaped, EscapedVarMarker, SegmentRegex)
        regex_pattern == Replace(escaped, EscapedStarMarker, AnyRegex)
    IN  ReCompile(regex_pattern)

\* the test one rule makes in match_url_to_destination
PatternTest(pattern, url) ==
    IF Contains(pattern, <<"{", "$">>)
    THEN ReSearch(parse_url_pattern(pattern), url)
    ELSE Contains(url, pattern)

\* the loop of match_url_to_destination that keeps going and returns the last hit
RECURSIVE MatchLoopLast(_, _, _)
MatchLoopLast(url, url_schemas, i) ==
    IF i > Len(url_schemas) THEN None
    ELSE LET rest == MatchLoopLast(url, url_schemas, i + 1)
         IN  IF rest # None THEN rest
             ELSE IF PatternTest(url_schemas[i].pattern, url)
                  THEN url_schemas[i].destination
                  ELSE None

\* for pattern, destination in url_schemas.items(): ... return destination
RECURSIVE MatchLoop(_, _, _)
MatchLoop(url, url_schemas, i) ==
    IF i > Len(url_schemas) THEN None
    ELSE IF PatternTest(url_schemas[i].pattern, url)
         THEN url_schemas[i].destination
         ELSE MatchLoop(url, url_schemas, i + 1)

match_url_to_destination_last(url, url_schemas) ==
    MatchLoopLast(url, url_schemas, 1)

match_url_to_destination(url, url_schemas) ==
    MatchLoop(url, url_schemas, 1)


(***************************************************************************)
(* Fallback routing (urlparse(url).netloc, get_domain_name)                *)
(***************************************************************************)

SchemeChars ==
    Range(LowerLetters) \cup Range(UpperLetters) \cup Digits \cup {"+", "-", "."}

\* index of the first character of s that is in chars, Len(s) + 1 if none
FirstIndexIn(s, chars) ==
    IF \E i \in 1..Len(s) : s[i] \in chars
    THEN CHOOSE i \in 1..Len(s) :
            /\ s[i] \in chars
            /\ \A k \in 1..(i - 1) : s[k] \notin chars
    ELSE Len(s) + 1

\* urlsplit: what follows "scheme:" when the text starts with a scheme
AfterScheme(url) ==
    LET i == FirstIndexIn(url, {":"})
    IN  IF /\ i > 1
           /\ i <= Len(url)
           /\ url[1] \in Range(LowerLetters) \cup Range(UpperLetters)
           /\ \A k \in 1..(i - 1) : url[k] \in SchemeChars
        THEN SubSeq(url, i + 1, Len(url))
        ELSE url

\* urlparse(url).netloc: between "//" and the next "/", "?" or "#"
Netloc(url) ==
    LET rest == AfterScheme(url)
    IN  IF StartsWith(rest, <<"/", "/">>)
        THEN LET body == SubSeq(rest, 3, Len(rest))
             IN  SubSeq(body, 1, FirstIndexIn(body, {"/", "?", "#"}) - 1)
        ELSE <<>>

\* s.split(sep): the parts, a sequence of texts
RECURSIVE Split(_, _)
Split(s, sep) ==
    LET i == FirstIndexIn(s, {sep})
    IN  IF i > Len(s) THEN <<s>>
        ELSE <<SubSeq(s, 1, i - 1)>> \o Split(SubSeq(s, i + 1, Len(s)), sep)

\* get_domain_name(url, loc): parts[loc] (0-based) or the whole netloc
get_domain_name(url, loc) ==
    LET domain_subdomain == Netloc(url)
        parts == Split(domain_subdomain, ".")
    IN  IF loc < Len(parts) THEN parts[loc + 1] ELSE domain_subdomain

\* for pattern, dest in ...items(): if domain.lower() in pattern.lower(): break
RECURSIVE FallbackLoop(_, _, _)
FallbackLoop(domain, url_schemas, i) ==
    IF i > Len(url_schemas) THEN None
    ELSE IF Contains(Lower(url_schemas[i].pattern), Lower(domain))
         THEN url_schemas[i].destination
         ELSE FallbackLoop(domain, url_schemas, i + 1)

\* `if not destination` / `if destination`: None and "" are both false
Truthy(text) == text # None /\ text # <<>>

\* routing that ends on the first rule's destination when nothing matches
RouteDestinationFirstRule(source_url, url_schemas) ==
    LET destination == match_url_to_destination(source_url, url_schemas)
        fallback == FallbackLoop(get_domain_name(source_url, 1), url_schemas, 1)
    IN  IF Truthy(destination) THEN destination
        ELSE IF Truthy(fallback) \/ url_schemas = <<>> THEN fallback
        ELSE url_schemas[1].destination

\* the destination _sort_file_by_url settles on (lines 212-221)
RouteDestination(source_url, url_schemas) ==
    LET destination == match_url_to_destination(source_url, url_schemas)
    IN  IF Truthy(destination) THEN destination
        ELSE FallbackLoop(get_domain_name(source_url, 1), url_schemas, 1)


(***************************************************************************)
(* The watcher, the disk and the observers: state                          *)
(***************************************************************************)

\* bounds of the model
MaxFiles == 2
MaxTime == 2
MaxObservers == 3
MaxEvents == 2

\* directories, as normalized path text
DL == <<"d">>
S1 == <<"s">>
S2 == <<"s", "2">>
Dirs == {DL, S1, S2}

\* file names: stem, an optional "-YYYYMMDD-HHMMSS" token (0: none, else the
\* second it was taken) and the extension
StemLec == <<"l", "e", "c">>
StemN1 == <<"n", "1">>
Stems == {StemLec, StemN1}
Exts == {"pdf"}
Names == [stem : Stems, ts : 0..MaxTime, ext : Exts]
DownloadName == [stem |-> StemLec, ts |-> 0, ext |-> "pdf"]
NoName == [stem |-> <<>>, ts |-> 0, ext |-> ""]

Paths == [dir : Dirs, name : Names]
NoPath == [dir |-> <<>>, name |-> NoName]

\* what the naming backend may answer (RenameResponse.name), None on any failure
AIReplies == {None, <<"L", "e", "c", "!">>, <<"n", "1">>, <<"!", "!">>}

\* provenance a browser may record: direct rule hit, fallback hit, no hit
OriginDirect == <<"h", ":", "/", "/", "a", ".", "b", "/", "c">>
OriginFallback == <<"h", ":", "/", "/", "w", ".", "f", "/", "z">>
OriginNoRule == <<"h", ":", "/", "/", "x", ".", "y", "/", "z">>
Origins == {None, OriginDirect, OriginFallback, OriginNoRule}

\* schema.move.url, in configuration order
UrlSchemas ==
    << [pattern |-> <<"a", ".", "b", "/", "c">>, destination |-> S1],
       [pattern |-> <<"e", ".", "f">>, destination |-> S2] >>

\* the configurations a run may start with
Configs ==
    [ url : {UrlSchemas},
      remove_duplicate : BOOLEAN,
      rename_by_ai : BOOLEAN,
      rename : {<<S1>>, <<DL, S1>>},
      watchlist : {{DL}, {DL, S1}} ]

Observers == 1..MaxObservers

\* the observers that connect while the watcher pipeline is explored
PipelineObservers == {1}

\* filename.endswith((".crdownload", ".tmp", ".part"))
TransientExts == {"crdownload", "tmp", "part"}

\* the names a browser gives a download in progress, in the watched directory
TransientNames == [stem : {StemLec}, ts : {0}, ext : TransientExts]
TransientPaths == [dir : {DL}, name : TransientNames]

VARIABLES
    m_url, m_schemas, m_result,
    s_name, s_room, s_once, s_twice,
    fs, origin, created, now, handled,
    config, recently_renamed, active_connections,
    pc, src_path, current_path, source_url, new_name,
    bc_message, bc_i, disconnected, stayed,
    ops, emitted, received, seen,
    setting, restarting, is_running,
    r_pc, r_path, r_name, r_new,
    sockets

matcher_vars == <<m_url, m_schemas, m_result>>
sanitizer_vars == <<s_name, s_room, s_once, s_twice>>
disk_vars == <<fs, origin, created>>
handler_vars == <<pc, src_path, current_path, source_url, new_name>>
bc_vars == <<bc_message, bc_i, disconnected, stayed>>
ghost_vars == <<ops, emitted, received, seen>>
monitor_vars == <<setting, restarting, is_running>>
manual_vars == <<r_pc, r_path, r_name, r_new>>
vars ==
    <<m_url, m_schemas, m_result, s_name, s_room, s_once, s_twice,
      fs, origin, created, now, handled,
      config, recently_renamed, active_connections,
      pc, src_path, current_path, source_url, new_name,
      bc_message, bc_i, disconnected, stayed,
      ops, emitted, received, seen,
      setting, restarting, is_running,
      r_pc, r_path, r_name, r_new,
      sockets>>

NoMessage == [type |-> "", from |-> NoPath, to |-> NoPath]
\* what the handler met along the way (kept for the properties only): the
\* early return, the suppression set and the file at the path on entry, the
\* destination path and the file found there by placement
NoSeen ==
    [early |-> FALSE, suppression |-> {}, src_file |-> 0,
     dest_path |-> NoPath, dest_file |-> 0]

\* the state the harness variables rest in while another part runs
Unset == <<"unset">>

MatcherIdle ==
    /\ m_url = <<>>
    /\ m_schemas = <<>>
    /\ m_result = Unset

SanitizerIdle ==
    /\ s_name = <<>>
    /\ s_room = 0
    /\ s_once = Unset
    /\ s_twice = Unset

\* process start: empty disk, empty registry, empty suppression set, no event
SystemInit(configs) ==
    /\ fs = [p \in Paths \cup TransientPaths |-> 0]
    /\ origin = [f \in 1..MaxFiles |-> None]
    /\ created = 0
    /\ now = 1
    /\ handled = 0
    /\ config \in configs
    /\ recently_renamed = {}
    /\ active_connections = <<>>
    /\ pc = "idle"
    /\ src_path = NoPath
    /\ current_path = NoPath
    /\ source_url = None
    /\ new_name = None
    /\ bc_message = NoMessage
    /\ bc_i = 0
    /\ disconnected = <<>>
    /\ stayed = {}
    /\ ops = <<>>
    /\ emitted = <<>>
    /\ received = [w \in Observers |-> <<>>]
    /\ seen = NoSeen
    /\ setting = config
    /\ restarting = FALSE
    /\ is_running = TRUE
    /\ r_pc = "idle"
    /\ r_path = NoPath
    /\ r_name = None
    /\ r_new = NoPath
    /\ sockets = [w \in Observers |-> "closed"]

\* AppConfig() as setting.py builds it by default, with the rules above
DefaultConfig ==
    [url |-> UrlSchemas, remove_duplicate |-> TRUE, rename_by_ai |-> TRUE,
     rename |-> <<S1>>, watchlist |-> {DL}]

Init ==
    /\ MatcherIdle
    /\ SanitizerIdle
    /\ SystemInit(Configs)


(***************************************************************************)
(* Environment: downloads, the clock, observers coming and going           *)
(***************************************************************************)

\* a browser finishes a download into the watched directory
CreateFile(o) ==
    /\ pc = "idle"
    /\ created < MaxFiles
    /\ fs[[dir |-> DL, name |-> DownloadName]] = 0
    /\ created' = created + 1
    /\ fs' = [fs EXCEPT ![[dir |-> DL, name |-> DownloadName]] = created + 1]
    /\ origin' = [origin EXCEPT ![created + 1] = o]
    /\ UNCHANGED <<now, handled, config, recently_renamed, active_connections>>
    /\ UNCHANGED <<handler_vars, bc_vars, ghost_vars, matcher_vars, sanitizer_vars>>
    /\ UNCHANGED <<monitor_vars, manual_vars, sockets>>

\* a second of wall-clock time passes (datetime.now() in rename_file_on_disk)
Tick ==
    /\ pc = "idle"
    /\ now < MaxTime
    /\ now' = now + 1
    /\ UNCHANGED <<disk_vars, handled, config, recently_renamed, active_connections>>
    /\ UNCHANGED <<handler_vars, bc_vars, ghost_vars, matcher_vars, sanitizer_vars>>
    /\ UNCHANGED <<monitor_vars, manual_vars, sockets>>

\* ConnectionManager.connect
Connect(websocket) ==
    /\ pc = "idle"
    /\ websocket \notin Range(active_connections)
    /\ active_connections' = Append(active_connections, websocket)
    /\ UNCHANGED <<disk_vars, now, handled, config, recently_renamed>>
    /\ UNCHANGED <<handler_vars, bc_vars, ghost_vars, matcher_vars, sanitizer_vars>>
    /\ UNCHANGED <<monitor_vars, manual_vars, sockets>>

\* list.remove(x): the first occurrence goes
RemoveFirst(list, x) ==
    IF x \in Range(list)
    THEN LET i == CHOOSE k \in DOMAIN list :
                    list[k] = x /\ \A q \in 1..(k - 1) : list[q] # x
         IN  SubSeq(list, 1, i - 1) \o SubSeq(list, i + 1, Len(list))
    ELSE list

\* ConnectionManager.disconnect, called when the client's socket closes
Disconnect(websocket) ==
    /\ pc = "idle"
    /\ websocket \in Range(active_connections)
    /\ active_connections' = RemoveFirst(active_connections, websocket)
    /\ UNCHANGED <<disk_vars, now, handled, config, recently_renamed>>
    /\ UNCHANGED <<handler_vars, bc_vars, ghost_vars, matcher_vars, sanitizer_vars>>
    /\ UNCHANGED <<monitor_vars, manual_vars, sockets>>

(***************************************************************************)
(* NewFileHandler.on_created, step by step                                 *)
(***************************************************************************)

\* on_created with the suppression set consulted on entry (the guard first)
OnCreatedGuardFirst(p, is_directory) ==
    /\ pc = "idle"
    /\ is_running
    /\ handled < MaxEvents
    /\ p.dir \in config.watchlist
    /\ handled' = handled + 1
    /\ src_path' = p
    /\ current_path' = p
    /\ source_url' = None
    /\ new_name' = None
    /\ ops' = <<>>
    /\ emitted' = <<>>
    /\ received' = [w \in Observers |-> <<>>]
    /\ seen' = [NoSeen EXCEPT !.early = is_directory \/ p.name.ext \in TransientExts,
                              !.suppression = recently_renamed,
                              !.src_file = fs[p]]
    /\ recently_renamed' = recently_renamed \ {p}
    /\ pc' = IF is_directory \/ p.name.ext \in TransientExts \/ p \in recently_renamed
             THEN "done" ELSE "mdls"
    /\ UNCHANGED <<disk_vars, now, config, active_connections>>
    /\ UNCHANGED <<bc_vars, matcher_vars, sanitizer_vars>>
    /\ UNCHANGED <<monitor_vars, manual_vars, sockets>>

\* on_created without the test of the transient suffixes
OnCreatedNoSuffixCheck(p, is_directory) ==
    /\ pc = "idle"
    /\ is_running
    /\ handled < MaxEvents
    /\ p.dir \in config.watchlist
    /\ handled' = handled + 1
    /\ src_path' = p
    /\ current_path' = p
    /\ source_url' = None
    /\ new_name' = None
    /\ ops' = <<>>
    /\ emitted' = <<>>
    /\ received' = [w \in Observers |-> <<>>]
    /\ seen' = [NoSeen EXCEPT !.early = is_directory,
                              !.suppression = recently_renamed,
                              !.src_file = fs[p]]
    /\ pc' = IF is_directory THEN "done" ELSE "mdls"
    /\ UNCHANGED <<disk_vars, now, config, recently_renamed, active_connections>>
    /\ UNCHANGED <<bc_vars, matcher_vars, sanitizer_vars>>
    /\ UNCHANGED <<monitor_vars, manual_vars, sockets>>

\* lines 175-188: a notification is taken up; directories and transient
\* download names return at once
OnCreated(p, is_directory) ==
    /\ pc = "idle"
    /\ is_running
    /\ handled < MaxEvents
    /\ p.dir \in config.watchlist
    /\ handled' = handled + 1
    /\ src_path' = p
    /\ current_path' = p
    /\ source_url' = None
    /\ new_name' = None
    /\ ops' = <<>>
    /\ emitted' = <<>>
    /\ received' = [w \in Observers |-> <<>>]
    /\ seen' = [NoSeen EXCEPT !.early = is_directory \/ p.name.ext \in TransientExts,
                              !.suppression = recently_renamed,
                              !.src_file = fs[p]]
    /\ pc' = IF is_directory \/ p.name.ext \in TransientExts THEN "done" ELSE "mdls"
    /\ UNCHANGED <<disk_vars, now, config, recently_renamed, active_connections>>
    /\ UNCHANGED <<bc_vars, matcher_vars, sanitizer_vars>>
    /\ UNCHANGED <<monitor_vars, manual_vars, sockets>>

\* get_metadata_mdls(path): the referring page of the file at path; None when
\* there is no file, no attribute, or the tool cannot be run
get_metadata_mdls(path, tool_ok) ==
    IF tool_ok /\ fs[path] # 0 THEN origin[fs[path]] ELSE None

\* lines 190-196
GetMetadata ==
    /\ pc = "mdls"
    /\ \E tool_ok \in BOOLEAN :
        /\ source_url' = get_metadata_mdls(src_path, tool_ok)
        /\ pc' = IF Truthy(source_url') THEN "sort" ELSE "should_rename"
    /\ ops' = Append(ops, "mdls")
    /\ UNCHANGED <<disk_vars, now, handled, config, recently_renamed, active_connections>>
    /\ UNCHANGED <<src_path, current_path, new_name, emitted, received, seen>>
    /\ UNCHANGED <<bc_vars, matcher_vars, sanitizer_vars>>
    /\ UNCHANGED <<monitor_vars, manual_vars, sockets>>

\* _broadcast_notification(message) begins: a fresh loop runs broadcast
StartBroadcast(message) ==
    /\ pc' = "bcast"
    /\ bc_message' = message
    /\ bc_i' = 1
    /\ disconnected' = <<>>
    /\ stayed' = Range(active_connections)

\* the handler stops with an exception leaving on_created
Raise(tag) ==
    /\ pc' = "raised"
    /\ ops' = Append(ops, tag)
    /\ UNCHANGED <<fs, bc_vars>>

\* _sort_file_by_url with the duplicate branch moving over the existing file
SortFileByUrlOverwrite ==
    /\ pc = "sort"
    /\ LET destination == RouteDestination(source_url, config.url)
           dest_path == [dir |-> destination, name |-> src_path.name]
       IN  IF ~Truthy(destination)
           THEN /\ pc' = "should_rename"
                /\ ops' = Append(ops, "no_route")
                /\ UNCHANGED <<fs, bc_vars, seen>>
           ELSE /\ seen' = [seen EXCEPT !.dest_path = dest_path,
                                        !.dest_file = fs[dest_path]]
                /\ fs' = [fs EXCEPT ![src_path] = 0, ![dest_path] = fs[src_path]]
                /\ ops' = ops \o <<"mkdir", "move">>
                /\ StartBroadcast([type |-> "file_moved", from |-> src_path,
                                   to |-> dest_path])
    /\ UNCHANGED <<origin, created, now, handled, config, recently_renamed>>
    /\ UNCHANGED <<active_connections, src_path, current_path, source_url, new_name>>
    /\ UNCHANGED <<emitted, received, matcher_vars, sanitizer_vars>>
    /\ UNCHANGED <<monitor_vars, manual_vars, sockets>>

\* _sort_file_by_url, lines 206-254, up to the call of _broadcast_notification
SortFileByUrl ==
    /\ pc = "sort"
    /\ LET destination == RouteDestination(source_url, config.url)
           dest_path == [dir |-> destination, name |-> src_path.name]
       IN  IF ~Truthy(destination)
           THEN /\ pc' = "should_rename"
                /\ ops' = Append(ops, "no_route")
                /\ UNCHANGED <<fs, bc_vars, seen>>
           ELSE \E mkdir_ok, io_ok \in BOOLEAN :
                /\ seen' = [seen EXCEPT !.dest_path = dest_path,
                                        !.dest_file = fs[dest_path]]
                /\ IF ~mkdir_ok
                   THEN Raise("mkdir_failed")
                   ELSE IF fs[dest_path] # 0
                   THEN IF config.remove_duplicate
                        THEN IF io_ok /\ fs[src_path] # 0
                             THEN /\ fs' = [fs EXCEPT ![src_path] = 0]
                                  /\ pc' = "should_rename"
                                  /\ ops' = ops \o <<"mkdir", "dup", "remove">>
                                  /\ UNCHANGED bc_vars
                             ELSE Raise("remove_failed")
                        ELSE /\ pc' = "should_rename"
                             /\ ops' = ops \o <<"mkdir", "dup">>
                             /\ UNCHANGED <<fs, bc_vars>>
                   ELSE IF io_ok /\ fs[src_path] # 0
                        THEN /\ fs' = [fs EXCEPT ![src_path] = 0,
                                                 ![dest_path] = fs[src_path]]
                             /\ ops' = ops \o <<"mkdir", "move">>
                             /\ StartBroadcast([type |-> "file_moved",
                                                from |-> src_path, to |-> dest_path])
                        ELSE Raise("move_failed")
    /\ UNCHANGED <<origin, created, now, handled, config, recently_renamed>>
    /\ UNCHANGED <<active_connections, src_path, current_path, source_url, new_name>>
    /\ UNCHANGED <<emitted, received, matcher_vars, sanitizer_vars>>
    /\ UNCHANGED <<monitor_vars, manual_vars, sockets>>


\* broadcast that gives up at the first failed delivery
BroadcastSendStopOnFailure ==
    /\ pc = "bcast"
    /\ bc_i <= Len(active_connections)
    /\ \E send_ok \in BOOLEAN :
        LET connection == active_connections[bc_i]
        IN  IF send_ok
            THEN /\ received' = [received EXCEPT ![connection] =
                                    Append(@, bc_message.type)]
                 /\ bc_i' = bc_i + 1
                 /\ UNCHANGED disconnected
            ELSE /\ disconnected' = Append(disconnected, connection)
                 /\ bc_i' = Len(active_connections) + 1
                 /\ UNCHANGED received
    /\ UNCHANGED <<disk_vars, now, handled, config, recently_renamed, active_connections>>
    /\ UNCHANGED <<handler_vars, bc_message, stayed, ops, emitted, seen>>
    /\ UNCHANGED <<matcher_vars, sanitizer_vars>>
    /\ UNCHANGED <<monitor_vars, manual_vars, sockets>>

\* ConnectionManager.broadcast, lines 72-77: one turn of the send loop
BroadcastSend ==
    /\ pc = "bcast"
    /\ bc_i <= Len(active_connections)
    /\ \E send_ok \in BOOLEAN :
        LET connection == active_connections[bc_i]
        IN  IF send_ok
            THEN /\ received' = [received EXCEPT ![connection] =
                                    Append(@, bc_message.type)]
                 /\ UNCHANGED disconnected
            ELSE /\ disconnected' = Append(disconnected, connection)
                 /\ UNCHANGED received
    /\ bc_i' = bc_i + 1
    /\ UNCHANGED <<disk_vars, now, handled, config, recently_renamed, active_connections>>
    /\ UNCHANGED <<handler_vars, bc_message, stayed, ops, emitted, seen>>
    /\ UNCHANGED <<matcher_vars, sanitizer_vars>>
    /\ UNCHANGED <<monitor_vars, manual_vars, sockets>>

\* for conn in disconnected: if conn in active_connections: remove(conn)
RECURSIVE RemoveAll(_, _)
RemoveAll(list, gone) ==
    IF gone = <<>> THEN list
    ELSE RemoveAll(RemoveFirst(list, Head(gone)), Tail(gone))

\* ConnectionManager.broadcast, lines 79-82, and the return into the handler:
\* after file_moved the handler goes on with the new path (lines 198-203),
\* after file_renamed it is finished
BroadcastPrune ==
    /\ pc = "bcast"
    /\ bc_i > Len(active_connections)
    /\ active_connections' = RemoveAll(active_connections, disconnected)
    /\ emitted' = Append(emitted, [type |-> bc_message.type,
                                   from |-> bc_message.from,
                                   to |-> bc_message.to,
                                   targets |-> active_connections,
                                   failed |-> Range(disconnected),
                                   stayed |-> stayed])
    /\ IF bc_message.type = "file_moved"
       THEN /\ current_path' = bc_message.to
            /\ pc' = "should_rename"
       ELSE /\ pc' = "done"
            /\ UNCHANGED current_path
    /\ bc_message' = NoMessage
    /\ bc_i' = 0
    /\ disconnected' = <<>>
    /\ stayed' = {}
    /\ UNCHANGED <<disk_vars, now, handled, config, recently_renamed>>
    /\ UNCHANGED <<src_path, source_url, new_name, ops, received, seen>>
    /\ UNCHANGED <<matcher_vars, sanitizer_vars>>
    /\ UNCHANGED <<monitor_vars, manual_vars, sockets>>

\* for rename_dir in schema.rename: if file_dir.startswith(rename_dir)
InRenameDirectory(file_dir, rename_dirs) ==
    \E i \in DOMAIN rename_dirs : StartsWith(file_dir, rename_dirs[i])

\* _should_rename_file that leaves a consulted entry in the set
ShouldRenameFileKeepEntry ==
    /\ pc = "should_rename"
    /\ IF current_path \in recently_renamed
       THEN /\ pc' = "done"
            /\ ops' = Append(ops, "suppressed")
       ELSE IF ~config.rename_by_ai
       THEN /\ pc' = "done"
            /\ ops' = Append(ops, "disabled")
       ELSE IF InRenameDirectory(current_path.dir, config.rename)
       THEN /\ pc' = "ai"
            /\ ops' = Append(ops, "eligible")
       ELSE /\ pc' = "done"
            /\ ops' = Append(ops, "not_eligible")
    /\ UNCHANGED recently_renamed
    /\ UNCHANGED <<disk_vars, now, handled, config, active_connections>>
    /\ UNCHANGED <<src_path, current_path, source_url, new_name>>
    /\ UNCHANGED <<bc_vars, emitted, received, seen, matcher_vars, sanitizer_vars>>
    /\ UNCHANGED <<monitor_vars, manual_vars, sockets>>

\* _should_rename_file(current_path), lines 256-280, with the branch of
\* on_created line 203
ShouldRenameFile ==
    /\ pc = "should_rename"
    /\ IF current_path \in recently_renamed
       THEN /\ recently_renamed' = recently_renamed \ {current_path}
            /\ pc' = "done"
            /\ ops' = Append(ops, "suppressed")
       ELSE IF ~config.rename_by_ai
       THEN /\ pc' = "done"
            /\ ops' = Append(ops, "disabled")
            /\ UNCHANGED recently_renamed
       ELSE IF InRenameDirectory(current_path.dir, config.rename)
       THEN /\ pc' = "ai"
            /\ ops' = Append(ops, "eligible")
            /\ UNCHANGED recently_renamed
       ELSE /\ pc' = "done"
            /\ ops' = Append(ops, "not_eligible")
            /\ UNCHANGED recently_renamed
    /\ UNCHANGED <<disk_vars, now, handled, config, active_connections>>
    /\ UNCHANGED <<src_path, current_path, source_url, new_name>>
    /\ UNCHANGED <<bc_vars, emitted, received, seen, matcher_vars, sanitizer_vars>>
    /\ UNCHANGED <<monitor_vars, manual_vars, sockets>>

\* get_file_type(file_path), file_extractor lines 73-113: the category of the
\* file by its extension
get_file_type(file_path) ==
    LET suffix == file_path.name.ext
    IN  IF suffix \in {"png", "jpg", "jpeg", "gif", "bmp", "webp", "tiff"} THEN "image"
        ELSE IF suffix = "pdf" THEN "pdf"
        ELSE IF suffix \in {"ppt", "pptx"} THEN "pptx"
        ELSE IF suffix = "txt" THEN "text"
        ELSE "unknown"

\* rename_file_with_ai(file_path), ollama_api lines 158-191: the sanitized
\* name, or None when the file cannot be read or the backend gives nothing
rename_file_with_ai(file_path, reply) ==
    IF get_file_type(file_path) = "unknown" THEN None
    ELSE IF fs[file_path] = 0 \/ reply = None \/ reply = <<>> THEN None
    ELSE sanitize_filename(reply)

\* _rename_file_with_ai going on to the rename with any name that is not None
RenameWithAIAcceptEmpty ==
    /\ pc = "ai"
    /\ \E reply \in AIReplies :
        /\ new_name' = rename_file_with_ai(current_path, reply)
        /\ IF new_name' # None
           THEN /\ pc' = "rename"
                /\ ops' = Append(ops, "named")
           ELSE /\ pc' = "done"
                /\ ops' = Append(ops, "no_name")
    /\ UNCHANGED <<disk_vars, now, handled, config, recently_renamed, active_connections>>
    /\ UNCHANGED <<src_path, current_path, source_url>>
    /\ UNCHANGED <<bc_vars, emitted, received, seen, matcher_vars, sanitizer_vars>>
    /\ UNCHANGED <<monitor_vars, manual_vars, sockets>>

\* _rename_file_with_ai, lines 284-287 and 303-304
RenameWithAI ==
    /\ pc = "ai"
    /\ \E reply \in AIReplies :
        /\ new_name' = rename_file_with_ai(current_path, reply)
        /\ IF Truthy(new_name')
           THEN /\ pc' = "rename"
                /\ ops' = Append(ops, "named")
           ELSE /\ pc' = "done"
                /\ ops' = Append(ops, "no_name")
    /\ UNCHANGED <<disk_vars, now, handled, config, recently_renamed, active_connections>>
    /\ UNCHANGED <<src_path, current_path, source_url>>
    /\ UNCHANGED <<bc_vars, emitted, received, seen, matcher_vars, sanitizer_vars>>
    /\ UNCHANGED <<monitor_vars, manual_vars, sockets>>

\* the path rename_file_on_disk renames to, ollama_api lines 225-235
RenameTarget(file_path, name) ==
    LET plain == [dir |-> file_path.dir,
                  name |-> [stem |-> name, ts |-> 0, ext |-> file_path.name.ext]]
    IN  IF fs[plain] # 0
        THEN [plain EXCEPT !.name.ts = now]
        ELSE plain

\* rename_file_on_disk(file_path, new_name), ollama_api lines 219-243: the new
\* path, or NoPath (None) when path.rename raises
rename_file_on_disk(file_path, name, rename_ok) ==
    IF rename_ok /\ fs[file_path] # 0 THEN RenameTarget(file_path, name) ELSE NoPath

\* the disk after path.rename(new_path): a file at new_path is replaced
DiskAfterRename(file_path, new_path) ==
    [fs EXCEPT ![file_path] = 0, ![new_path] = fs[file_path]]


\* _rename_file_with_ai registering the path the file was renamed to
RenameOnDiskRegisterNewPath ==
    /\ pc = "rename"
    /\ \E rename_ok \in BOOLEAN :
        LET new_path == rename_file_on_disk(current_path, new_name, rename_ok)
        IN  IF new_path # NoPath
            THEN /\ fs' = DiskAfterRename(current_path, new_path)
                 /\ recently_renamed' = recently_renamed \cup {new_path}
                 /\ ops' = Append(ops, "renamed")
                 /\ StartBroadcast([type |-> "file_renamed",
                                    from |-> current_path, to |-> new_path])
            ELSE /\ pc' = "done"
                 /\ ops' = Append(ops, "rename_failed")
                 /\ UNCHANGED <<fs, recently_renamed, bc_vars>>
    /\ UNCHANGED <<origin, created, now, handled, config, active_connections>>
    /\ UNCHANGED <<src_path, current_path, source_url, new_name>>
    /\ UNCHANGED <<emitted, received, seen, matcher_vars, sanitizer_vars>>
    /\ UNCHANGED <<monitor_vars, manual_vars, sockets>>

\* _rename_file_with_ai, lines 288-302, up to the call of
\* _broadcast_notification
RenameOnDisk ==
    /\ pc = "rename"
    /\ \E rename_ok \in BOOLEAN :
        LET new_path == rename_file_on_disk(current_path, new_name, rename_ok)
        IN  IF new_path # NoPath
            THEN /\ fs' = DiskAfterRename(current_path, new_path)
                 /\ recently_renamed' = recently_renamed \cup {current_path}
                 /\ ops' = Append(ops, "renamed")
                 /\ StartBroadcast([type |-> "file_renamed",
                                    from |-> current_path, to |-> new_path])
            ELSE /\ pc' = "done"
                 /\ ops' = Append(ops, "rename_failed")
                 /\ UNCHANGED <<fs, recently_renamed, bc_vars>>
    /\ UNCHANGED <<origin, created, now, handled, config, active_connections>>
    /\ UNCHANGED <<src_path, current_path, source_url, new_name>>
    /\ UNCHANGED <<emitted, received, seen, matcher_vars, sanitizer_vars>>
    /\ UNCHANGED <<monitor_vars, manual_vars, sockets>>

\* on_created returns; the dispatcher waits for the next notification
Return ==
    /\ pc = "done"
    /\ pc' = "idle"
    /\ src_path' = NoPath
    /\ current_path' = NoPath
    /\ source_url' = None
    /\ new_name' = None
    /\ ops' = <<>>
    /\ emitted' = <<>>
    /\ received' = [w \in Observers |-> <<>>]
    /\ seen' = NoSeen
    /\ UNCHANGED <<disk_vars, now, handled, config, recently_renamed>>
    /\ UNCHANGED <<active_connections, bc_vars, matcher_vars, sanitizer_vars>>
    /\ UNCHANGED <<monitor_vars, manual_vars, sockets>>

Next ==
    \/ \E o \in Origins : CreateFile(o)
    \/ Tick
    \/ \E w \in PipelineObservers : Connect(w)
    \/ \E w \in PipelineObservers : Disconnect(w)
    \/ \E p \in Paths, is_directory \in BOOLEAN : OnCreated(p, is_directory)
    \/ GetMetadata
    \/ SortFileByUrl
    \/ BroadcastSend
    \/ BroadcastPrune
    \/ ShouldRenameFile
    \/ RenameWithAI
    \/ RenameOnDisk
    \/ Return

Spec == Init /\ [][Next]_vars

(***************************************************************************)
(* The route matcher on its own: rule sets are built, then matched         *)
(***************************************************************************)

MaxRules == 2

ExamplePattern ==
    <<"e","x","a","m","p","l","e",".","c","o","m","/",
      "c","o","u","r","s","e","/","{","$","v","a","r","}">>
ExampleOrigin ==
    <<"h","t","t","p","s",":","/","/","e","x","a","m","p","l","e",".","c","o","m","/",
      "c","o","u","r","s","e","/","p","y","t","h","o","n">>
ExampleOriginEmptySegment ==
    <<"h","t","t","p","s",":","/","/","e","x","a","m","p","l","e",".","c","o","m","/",
      "c","o","u","r","s","e","/">>

MatchPatterns ==
    { <<"a", ".", "b">>,
      <<"a", ".", "b", "/", "c">>,
      <<"b", "/", "{", "$", "v", "a", "r", "}">>,
      <<"a", "{", "$", "*", "}", "c">>,
      ExamplePattern }

MatchOrigins ==
    { OriginDirect,
      <<"h", ":", "/", "/", "a", ".", "b", "/">>,
      OriginNoRule,
      <<"b", "/", "{", "$", "v", "a", "r", "}">>,
      ExampleOrigin,
      ExampleOriginEmptySegment }

InitMatch ==
    /\ m_url \in MatchOrigins
    /\ m_schemas = <<>>
    /\ m_result = Unset
    /\ SanitizerIdle
    /\ SystemInit({DefaultConfig})

\* one more entry of schema.move.url (a dict: patterns are unique keys)
AddRule(pattern, destination) ==
    /\ Len(m_schemas) < MaxRules
    /\ \A i \in DOMAIN m_schemas : m_schemas[i].pattern # pattern
    /\ m_schemas' = Append(m_schemas, [pattern |-> pattern, destination |-> destination])
    /\ m_result' = Unset
    /\ UNCHANGED <<m_url, sanitizer_vars, disk_vars, now, handled, config>>
    /\ UNCHANGED <<recently_renamed, active_connections, handler_vars, bc_vars, ghost_vars>>
    /\ UNCHANGED <<monitor_vars, manual_vars, sockets>>

\* match_url_to_destination(url, url_schemas) is called
MatchUrl ==
    /\ m_result = Unset
    /\ m_result' = match_url_to_destination(m_url, m_schemas)
    /\ UNCHANGED <<m_url, m_schemas, sanitizer_vars, disk_vars, now, handled, config>>
    /\ UNCHANGED <<recently_renamed, active_connections, handler_vars, bc_vars, ghost_vars>>
    /\ UNCHANGED <<monitor_vars, manual_vars, sockets>>

NextMatch ==
    \/ \E pattern \in MatchPatterns, destination \in {S1, S2} : AddRule(pattern, destination)
    \/ MatchUrl

SpecMatch == InitMatch /\ [][NextMatch]_vars

(***************************************************************************)
(* The sanitizer on its own: a name is typed, then sanitized twice         *)
(***************************************************************************)

MaxTail == 3

SanitizeChars == {"a", "B", "_", "-", "I_DOT", "COMB_DOT"}

\* a run of MaxNameLen - 1 letters, so that a short tail crosses the limit
LongStem == [i \in 1..(MaxNameLen - 1) |-> "a"]

ExampleName ==
    <<"M","y"," ","F","i","l","e","!","!"," "," ","N","a","m","e">>
ExampleSanitized ==
    <<"m","y","_","f","i","l","e","_","n","a","m","e">>

InitSanitize ==
    /\ s_name \in {<<>>, LongStem, ExampleName}
    /\ s_room = IF s_name = ExampleName THEN 0 ELSE MaxTail
    /\ s_once = Unset
    /\ s_twice = Unset
    /\ MatcherIdle
    /\ SystemInit({DefaultConfig})

TypeChar(c) ==
    /\ s_once = Unset
    /\ s_room > 0
    /\ s_name' = Append(s_name, c)
    /\ s_room' = s_room - 1
    /\ UNCHANGED <<s_once, s_twice, matcher_vars, disk_vars, now, handled, config>>
    /\ UNCHANGED <<recently_renamed, active_connections, handler_vars, bc_vars, ghost_vars>>
    /\ UNCHANGED <<monitor_vars, manual_vars, sockets>>

\* sanitize_filename(name), and again on its result
Sanitize ==
    /\ s_once = Unset
    /\ s_once' = sanitize_filename(s_name)
    /\ s_twice' = sanitize_filename(s_once')
    /\ UNCHANGED <<s_name, s_room, matcher_vars, disk_vars, now, handled, config>>
    /\ UNCHANGED <<recently_renamed, active_connections, handler_vars, bc_vars, ghost_vars>>
    /\ UNCHANGED <<monitor_vars, manual_vars, sockets>>

NextSanitize ==
    \/ \E c \in SanitizeChars : TypeChar(c)
    \/ Sanitize

SpecSanitize == InitSanitize /\ [][NextSanitize]_vars

(***************************************************************************)
(* The observer registry on its own: observers come and go between         *)
(* broadcasts, each broadcast runs to its end                              *)
(***************************************************************************)

\* the event a broadcast carries here
ExampleMessage ==
    [type |-> "file_renamed",
     from |-> [dir |-> S1, name |-> DownloadName],
     to |-> [dir |-> S1, name |-> [stem |-> StemN1, ts |-> 0, ext |-> "pdf"]]]

InitBroadcast ==
    /\ MatcherIdle
    /\ SanitizerIdle
    /\ SystemInit({DefaultConfig})

\* _broadcast_notification(message), lines 306-315: ws_manager.broadcast is
\* run to completion on a loop of its own
BroadcastNotification(message) ==
    /\ pc = "idle"
    /\ StartBroadcast(message)
    /\ emitted' = <<>>
    /\ received' = [w \in Observers |-> <<>>]
    /\ UNCHANGED <<disk_vars, now, handled, config, recently_renamed, active_connections>>
    /\ UNCHANGED <<src_path, current_path, source_url, new_name, ops, seen>>
    /\ UNCHANGED <<matcher_vars, sanitizer_vars>>
    /\ UNCHANGED <<monitor_vars, manual_vars, sockets>>

NextBroadcast ==
    \/ \E w \in Observers : Connect(w)
    \/ \E w \in Observers : Disconnect(w)
    \/ BroadcastNotification(ExampleMessage)
    \/ BroadcastSend
    \/ BroadcastPrune
    \/ Return

SpecBroadcast == InitBroadcast /\ [][NextBroadcast]_vars

(***************************************************************************)
(* Renaming on disk on its own: files appear, the clock runs, files are    *)
(* renamed to names the naming stage may give                              *)
(***************************************************************************)

InitRename ==
    /\ MatcherIdle
    /\ SanitizerIdle
    /\ SystemInit({DefaultConfig})

\* rename_file_on_disk(file_path, new_name) is called for a file that exists
\* (main.py line 512 after the check of line 507; line 289 in the watcher)
RenameFile(file_path, name) ==
    /\ pc = "idle"
    /\ fs[file_path] # 0
    /\ \E rename_ok \in BOOLEAN :
        LET new_path == rename_file_on_disk(file_path, name, rename_ok)
        IN  IF new_path # NoPath
            THEN fs' = DiskAfterRename(file_path, new_path)
            ELSE UNCHANGED fs
    /\ UNCHANGED <<origin, created, now, handled, config, recently_renamed>>
    /\ UNCHANGED <<active_connections, handler_vars, bc_vars, ghost_vars>>
    /\ UNCHANGED <<matcher_vars, sanitizer_vars>>
    /\ UNCHANGED <<monitor_vars, manual_vars, sockets>>

NextRename ==
    \/ \E o \in Origins : CreateFile(o)
    \/ Tick
    \/ \E file_path \in Paths, name \in Stems : RenameFile(file_path, name)

SpecRename == InitRename /\ [][NextRename]_vars

(***************************************************************************)
(* Properties of the route matcher (under SpecMatch)                       *)
(***************************************************************************)

\* C1: match_url_to_destination(O, R) returns the destination of the earliest
\* rule of R, in configuration order, whose pattern test succeeds against O,
\* and None when no rule's test succeeds; when two rules match with different
\* destinations, the earlier rule's destination is returned.
C1_FirstMatchingRuleWins ==
    m_result # Unset =>
        LET hits == {i \in DOMAIN m_schemas : PatternTest(m_schemas[i].pattern, m_url)}
        IN  IF hits = {}
            THEN m_result = None
            ELSE \E i \in hits :
                    /\ \A k \in hits : i <= k
                    /\ m_result = m_schemas[i].destination

\* C1 happens: two rules match the origin, they name different destinations,
\* and the answer is the first rule's
C1_TwoRulesMatch ==
    /\ m_result # Unset
    /\ Len(m_schemas) = 2
    /\ PatternTest(m_schemas[1].pattern, m_url)
    /\ PatternTest(m_schemas[2].pattern, m_url)
    /\ m_schemas[1].destination # m_schemas[2].destination
    /\ m_result = m_schemas[1].destination

\* C2: a rule whose pattern holds the marker {$var} matches an origin exactly
\* when the origin contains the pattern's literal text with the marker standing
\* for one or more characters other than "/"; so the answer of the matcher is
\* the destination of the first rule that matches in this sense (the example
\* pattern matches "https://example.com/course/python" and not
\* "https://example.com/course/").
C2_VarMarkerMatchesOneSegment ==
    m_result # Unset =>
        LET literal(text) == [i \in 1..Len(text) |-> LitTok(text[i])]
            stated(pattern) ==
                Replace(Replace(literal(pattern),
                                literal(<<"{", "$", "v", "a", "r", "}">>), <<SegTok>>),
                        literal(<<"{", "$", "*", "}">>), <<AnyTok>>)
            matches(pattern) ==
                IF Contains(pattern, <<"{", "$">>)
                THEN ReSearch(stated(pattern), m_url)
                ELSE Contains(m_url, pattern)
            hits == {i \in DOMAIN m_schemas : matches(m_schemas[i].pattern)}
        IN  IF hits = {}
            THEN m_result = None
            ELSE \E i \in hits :
                    /\ \A k \in hits : i <= k
                    /\ m_result = m_schemas[i].destination

(***************************************************************************)
(* Properties of the watcher pipeline (under Spec)                         *)
(***************************************************************************)

C5_DuplicateNeverOverwritten ==
    seen.dest_file # 0 =>
        /\ current_path = src_path
        /\ "move" \notin Range(ops)
        /\ fs[seen.dest_path] \in {seen.dest_file, 0}
        /\ src_path # seen.dest_path => fs[seen.dest_path] = seen.dest_file
        /\ bc_message.type # "file_moved"
        /\ \A i \in DOMAIN emitted : emitted[i].type # "file_moved"
        /\ (pc = "should_rename" /\ config.remove_duplicate) => fs[src_path] = 0
        /\ (pc = "should_rename" /\ ~config.remove_duplicate) =>
                fs[src_path] = seen.src_file

\* C5 happens: placement has met another file of the same name at the
\* destination and, with remove_duplicate set, has deleted the source
C5_DuplicateMet ==
    /\ pc = "should_rename"
    /\ seen.dest_file # 0
    /\ seen.dest_file # seen.src_file
    /\ config.remove_duplicate
    /\ fs[src_path] = 0
    /\ fs[seen.dest_path] = seen.dest_file

\* C8: a created file whose provenance matches a rule whose destination is a
\* configured rename directory, with renaming enabled, no file of that name at
\* the destination and no step failing, is moved to the destination and then
\* renamed there, and exactly one file_moved and then exactly one file_renamed
\* notification are emitted.
C8_MovedThenRenamed ==
    LET destination == match_url_to_destination(source_url, config.url)
    IN  ( /\ pc = "done"
          /\ ~seen.early
          /\ Truthy(source_url)
          /\ Truthy(destination)
          /\ destination \in Range(config.rename)
          /\ config.rename_by_ai
          /\ seen.dest_file = 0
          /\ Range(ops) \cap {"no_name", "rename_failed"} = {} )
        => /\ Len(emitted) = 2
           /\ emitted[1].type = "file_moved"
           /\ emitted[1].to = [dir |-> destination, name |-> src_path.name]
           /\ emitted[2].type = "file_renamed"
           /\ emitted[2].from = emitted[1].to
           /\ fs[emitted[2].to] = seen.src_file

\* C10: no failure inside the handling of a creation notification leaves the
\* handler as an exception; the handler always returns.
C10_HandlerNeverRaises ==
    pc # "raised"

(***************************************************************************)
(* Properties of the observer registry (under SpecBroadcast)               *)
(***************************************************************************)

\* C6: when a broadcast to the registered observers is over, every observer
\* whose delivery did not fail has been sent the event once, exactly the
\* observers whose delivery failed have left the registry, the others are
\* still registered in their order, and the broadcast has not raised.
C6_FailedDeliveryIsolated ==
    (pc = "done" /\ emitted # <<>>) =>
        LET sent == emitted[Len(emitted)]
        IN  /\ \A w \in Range(sent.targets) \ sent.failed :
                    received[w] = <<sent.type>>
            /\ \A w \in Observers \ (Range(sent.targets) \ sent.failed) :
                    received[w] = <<>>
            /\ Range(active_connections) = Range(sent.targets) \ sent.failed
            /\ active_connections =
                    SelectSeq(sent.targets, LAMBDA w : w \notin sent.failed)

\* C6 happens: a broadcast to three observers, the delivery to exactly one of
\* them (not the last one) failed, and two are left in the registry
C6_OneOfThreeFailed ==
    /\ pc = "done"
    /\ emitted # <<>>
    /\ Len(emitted[1].targets) = 3
    /\ Cardinality(emitted[1].failed) = 1
    /\ emitted[1].targets[3] \notin emitted[1].failed
    /\ Len(active_connections) = 2

(***************************************************************************)
(* Properties of renaming on disk (under SpecRename)                       *)
(***************************************************************************)

\* C7: a rename onto a name that exists takes a name with a timestamp token
\* and never overwrites or removes a file: every file that was created is
\* still on the disk, under some name, after any sequence of renames.
C7_RenameNeverOverwrites ==
    \A f \in 1..created : \E p \in Paths : fs[p] = f

(***************************************************************************)
(* Properties of the sanitizer (under SpecSanitize)                        *)
(***************************************************************************)

\* C9: sanitize_filename(sanitize_filename(x)) = sanitize_filename(x) for
\* every text x, and sanitize_filename("My File!!  Name") = "my_file_name".
C9_SanitizeIdempotent ==
    s_once # Unset =>
        /\ s_twice = s_once
        /\ s_name = ExampleName => s_once = ExampleSanitized

\* C11: a path is a rename candidate only if renaming is enabled and the
\* directory holding the path is one of the configured rename directories or
\* lies under one of them; a file in any other directory is never renamed.
C11_CandidateOnlyUnderRenameDirectory ==
    ("eligible" \in Range(ops) \/ "renamed" \in Range(ops)) =>
        /\ config.rename_by_ai
        /\ \E i \in DOMAIN config.rename :
                \/ current_path.dir = config.rename[i]
                \/ StartsWith(current_path.dir, config.rename[i] \o <<"/">>)

\* C12: the suppression set gains an entry only when the watcher's rename
\* succeeds on disk, and the entry is the path the file had before the rename;
\* the file_renamed notification for that path is then sent, once. A rename
\* that fails adds no entry and sends no notification.
C12_RenameRegistersOldPath ==
    /\ [][ ~(recently_renamed' \subseteq recently_renamed) =>
            /\ pc = "rename"
            /\ fs[current_path] # 0
            /\ recently_renamed' = recently_renamed \cup {current_path}
            /\ ops' = Append(ops, "renamed")
            /\ bc_message'.type = "file_renamed"
            /\ bc_message'.from = current_path
            /\ fs'[bc_message'.to] = fs[current_path] ]_vars
    /\ []( (pc = "done" /\ "renamed" \in Range(ops)) =>
            /\ current_path \in recently_renamed
            /\ emitted # <<>>
            /\ emitted[Len(emitted)].type = "file_renamed"
            /\ emitted[Len(emitted)].from = current_path
            /\ Cardinality({i \in DOMAIN emitted : emitted[i].type = "file_renamed"}) = 1 )
    /\ []( "rename_failed" \in Range(ops) =>
            /\ recently_renamed = seen.suppression
            /\ \A i \in DOMAIN emitted : emitted[i].type # "file_renamed" )

\* C12 happens: a rename has succeeded, the path the file had before is newly
\* in the suppression set, the new path is not, and file_renamed was sent
C12_OldPathRegistered ==
    /\ pc = "done"
    /\ "renamed" \in Range(ops)
    /\ current_path \notin seen.suppression
    /\ current_path \in recently_renamed
    /\ emitted[Len(emitted)].type = "file_renamed"
    /\ emitted[Len(emitted)].to # current_path
    /\ emitted[Len(emitted)].to \notin recently_renamed

(***************************************************************************)
(* Configuration updates while the watcher runs                            *)
(***************************************************************************)

\* a second configuration, different in the rules, in both settings and in
\* the rename directories
AltConfig ==
    [url |-> << [pattern |-> <<"a", ".", "b", "/", "c">>, destination |-> S2] >>,
     remove_duplicate |-> FALSE, rename_by_ai |-> FALSE,
     rename |-> <<DL, S1>>, watchlist |-> {DL}]

ConfigChoices == {DefaultConfig, AltConfig}

InitConfig ==
    /\ MatcherIdle
    /\ SanitizerIdle
    /\ SystemInit(ConfigChoices)

\* PUT /api/config with the configuration swapped at once in the running
\* handler as well
UpdateConfigInPlace(new_config) ==
    /\ ~restarting
    /\ setting' = new_config
    /\ config' = new_config
    /\ restarting' = is_running
    /\ ops' = IF pc \in {"idle", "raised"} THEN ops ELSE Append(ops, "config_update")
    /\ UNCHANGED <<disk_vars, now, handled, recently_renamed, active_connections, is_running>>
    /\ UNCHANGED <<handler_vars, bc_vars, emitted, received, seen>>
    /\ UNCHANGED <<matcher_vars, sanitizer_vars, manual_vars, sockets>>

\* PUT /api/config restarting the monitor whether it was running or not
UpdateConfigAlwaysRestart(new_config) ==
    /\ ~restarting
    /\ setting' = new_config
    /\ restarting' = TRUE
    /\ is_running' = TRUE
    /\ ops' = IF pc \in {"idle", "raised"} THEN ops ELSE Append(ops, "config_update")
    /\ UNCHANGED <<disk_vars, now, handled, config, recently_renamed, active_connections>>
    /\ UNCHANGED <<handler_vars, bc_vars, emitted, received, seen>>
    /\ UNCHANGED <<matcher_vars, sanitizer_vars, manual_vars, sockets>>

\* PUT /api/config, main.py lines 446-466, and FileMonitor.update_config line
\* 363: a new AppConfig object becomes the global setting and the monitor's
\* config; the handler at work keeps the object it was built with, and a
\* restart is due only `if self.is_running`. (ops notes a request that arrives while an event is handled.)
UpdateConfig(new_config) ==
    /\ ~restarting
    /\ setting' = new_config
    /\ restarting' = is_running
    /\ ops' = IF pc \in {"idle", "raised"} THEN ops ELSE Append(ops, "config_update")
    /\ UNCHANGED <<disk_vars, now, handled, config, recently_renamed, active_connections>>
    /\ UNCHANGED is_running
    /\ UNCHANGED <<handler_vars, bc_vars, emitted, received, seen>>
    /\ UNCHANGED <<matcher_vars, sanitizer_vars, manual_vars, sockets>>

\* FileMonitor.update_config lines 364-367: stop() joins the observer thread,
\* which ends once the handler at work has returned (or has died); start()
\* (lines 331-346) builds a new NewFileHandler from the monitor's config
RestartMonitor ==
    /\ restarting
    /\ pc \in {"idle", "raised"}
    /\ restarting' = FALSE
    /\ config' = setting
    /\ recently_renamed' = {}
    /\ pc' = "idle"
    /\ src_path' = NoPath
    /\ current_path' = NoPath
    /\ source_url' = None
    /\ new_name' = None
    /\ ops' = <<>>
    /\ emitted' = <<>>
    /\ received' = [w \in Observers |-> <<>>]
    /\ seen' = NoSeen
    /\ UNCHANGED <<disk_vars, now, handled, active_connections, setting, is_running>>
    /\ UNCHANGED <<bc_vars, matcher_vars, sanitizer_vars, manual_vars, sockets>>

NextConfig ==
    \/ \E o \in {OriginDirect, OriginFallback} : CreateFile(o)
    \/ \E p \in Paths, is_directory \in BOOLEAN : OnCreated(p, is_directory)
    \/ GetMetadata
    \/ SortFileByUrl
    \/ BroadcastSend
    \/ BroadcastPrune
    \/ ShouldRenameFile
    \/ RenameWithAI
    \/ RenameOnDisk
    \/ Return
    \/ \E w \in PipelineObservers : Connect(w)
    \/ \E new_config \in ConfigChoices : UpdateConfig(new_config)
    \/ RestartMonitor

SpecConfig == InitConfig /\ [][NextConfig]_vars

\* C13: while an event is handled the configuration its handler uses never
\* changes, also when an update is requested meanwhile: routing, duplicate
\* removal, the rename switch and the rename directories are those of the
\* configuration in force at admission. Once the monitor has restarted, the
\* handler uses the new configuration.
C13_EventKeepsItsConfiguration ==
    /\ [][pc \notin {"idle", "raised"} => config' = config]_vars
    /\ [](~restarting => config = setting)
    /\ []( pc \notin {"idle", "raised"} =>
            /\ "move" \in Range(ops) =>
                    /\ seen.dest_path.dir = RouteDestination(source_url, config.url)
                    /\ seen.dest_file = 0
            /\ "remove" \in Range(ops) => config.remove_duplicate
            /\ ("dup" \in Range(ops) /\ "remove" \notin Range(ops)) =>
                    ~config.remove_duplicate
            /\ "disabled" \in Range(ops) => ~config.rename_by_ai
            /\ "eligible" \in Range(ops) =>
                    /\ config.rename_by_ai
                    /\ InRenameDirectory(current_path.dir, config.rename)
            /\ "not_eligible" \in Range(ops) =>
                    /\ config.rename_by_ai
                    /\ ~InRenameDirectory(current_path.dir, config.rename) )

\* C13 happens: an update was requested after the provenance lookup of an
\* event and before its placement; the file was still routed and renamed by
\* the old configuration, which differs from the new one
C13_UpdateWhileInFlight ==
    /\ pc = "done"
    /\ restarting
    /\ setting # config
    /\ Len(ops) >= 6
    /\ ops[1] = "mdls"
    /\ ops[2] = "config_update"
    /\ ops[4] = "move"
    /\ "renamed" \in Range(ops)


\* ---------------------------------------------------------------------------
\* The manual rename endpoint (main.py lines 501-526) next to the watcher.
\* The endpoint runs on the server's event loop, the watcher's handler on the
\* observer's thread; neither takes a lock.
\* ---------------------------------------------------------------------------

\* the paths a RenameRequest names
RequestPaths == {p \in Paths : p.name.ts = 0 /\ p.dir \in {DL, S1}}

InitManual ==
    /\ MatcherIdle
    /\ SanitizerIdle
    /\ SystemInit({DefaultConfig})

\* rename_file_endpoint going on to the naming call without the existence check
RenameEndpointNoCheck(file_path) ==
    /\ r_pc = "idle"
    /\ r_path' = file_path
    /\ r_pc' = "naming"
    /\ r_name' = None
    /\ r_new' = NoPath
    /\ UNCHANGED <<disk_vars, now, handled, config, recently_renamed>>
    /\ UNCHANGED <<active_connections, handler_vars, bc_vars, ghost_vars>>
    /\ UNCHANGED <<matcher_vars, sanitizer_vars, monitor_vars, sockets>>

\* rename_file_endpoint, lines 505-508: the existence check; HTTPException 404
\* for a path that does not exist
RenameEndpointCheck(file_path) ==
    /\ r_pc = "idle"
    /\ r_path' = file_path
    /\ r_pc' = IF fs[file_path] = 0 THEN "not_found" ELSE "naming"
    /\ r_name' = None
    /\ r_new' = NoPath
    /\ UNCHANGED <<disk_vars, now, handled, config, recently_renamed>>
    /\ UNCHANGED <<active_connections, handler_vars, bc_vars, ghost_vars>>
    /\ UNCHANGED <<matcher_vars, sanitizer_vars, monitor_vars, sockets>>

\* rename_file_endpoint, lines 510-511 and 520-521: the naming call
RenameEndpointName ==
    /\ r_pc = "naming"
    /\ \E reply \in AIReplies :
        /\ r_name' = rename_file_with_ai(r_path, reply)
        /\ r_pc' = IF Truthy(r_name') THEN "renaming" ELSE "failed"
    /\ UNCHANGED <<r_path, r_new>>
    /\ UNCHANGED <<disk_vars, now, handled, config, recently_renamed>>
    /\ UNCHANGED <<active_connections, handler_vars, bc_vars, ghost_vars>>
    /\ UNCHANGED <<matcher_vars, sanitizer_vars, monitor_vars, sockets>>

\* rename_file_endpoint, lines 512-518: rename_file_on_disk and the response,
\* success=True whatever rename_file_on_disk returned
RenameEndpointRename ==
    /\ r_pc = "renaming"
    /\ \E rename_ok \in BOOLEAN :
        /\ r_new' = rename_file_on_disk(r_path, r_name, rename_ok)
        /\ IF r_new' # NoPath
           THEN fs' = DiskAfterRename(r_path, r_new')
           ELSE UNCHANGED fs
    /\ r_pc' = "succeeded"
    /\ UNCHANGED <<r_path, r_name>>
    /\ UNCHANGED <<origin, created, now, handled, config, recently_renamed>>
    /\ UNCHANGED <<active_connections, handler_vars, bc_vars, ghost_vars>>
    /\ UNCHANGED <<matcher_vars, sanitizer_vars, monitor_vars, sockets>>

\* the response is sent; the event loop takes the next request
RenameEndpointRespond ==
    /\ r_pc \in {"not_found", "failed", "succeeded"}
    /\ r_pc' = "idle"
    /\ r_path' = NoPath
    /\ r_name' = None
    /\ r_new' = NoPath
    /\ UNCHANGED <<disk_vars, now, handled, config, recently_renamed>>
    /\ UNCHANGED <<active_connections, handler_vars, bc_vars, ghost_vars>>
    /\ UNCHANGED <<matcher_vars, sanitizer_vars, monitor_vars, sockets>>

NextManual ==
    \/ CreateFile(OriginDirect)
    \/ \E p \in RequestPaths : OnCreated(p, FALSE)
    \/ GetMetadata
    \/ SortFileByUrl
    \/ BroadcastPrune
    \/ ShouldRenameFile
    \/ RenameWithAI
    \/ RenameOnDisk
    \/ Return
    \/ \E file_path \in RequestPaths : RenameEndpointCheck(file_path)
    \/ RenameEndpointName
    \/ RenameEndpointRename
    \/ RenameEndpointRespond

SpecManual == InitManual /\ [][NextManual]_vars


\* C14: move and rename steps on one path exclude each other. While the
\* watcher's handler is between reading a path and moving or renaming it, no
\* step of another operation changes the file at that path; while the manual
\* rename is between its existence check and its rename, no step of the
\* watcher changes the file at the requested path; and the suppression set
\* changes only in steps of the handler that owns it.
C14_PathStepsMutuallyExclusive ==
    /\ [][(pc \in {"sort", "ai", "rename"} /\ pc' = pc)
            => fs'[current_path] = fs[current_path]]_vars
    /\ [][(r_pc \in {"naming", "renaming"} /\ r_pc' = r_pc)
            => fs'[r_path] = fs[r_path]]_vars
    /\ [][recently_renamed' # recently_renamed => pc' # pc]_vars


\* ---------------------------------------------------------------------------
\* The registry under clients that come and go while the watcher broadcasts.
\* websocket_endpoint runs on the server's event loop; _broadcast_notification
\* runs ConnectionManager.broadcast on a loop of its own in the observer's
\* thread (lines 306-315); the list active_connections is shared, no lock.
\* ---------------------------------------------------------------------------

\* websocket_endpoint, line 486: ws_manager.connect(websocket)
ClientConnect(websocket) ==
    /\ websocket \notin Range(active_connections)
    /\ active_connections' = Append(active_connections, websocket)
    /\ UNCHANGED <<disk_vars, now, handled, config, recently_renamed>>
    /\ UNCHANGED <<handler_vars, bc_vars, ghost_vars, matcher_vars, sanitizer_vars>>
    /\ UNCHANGED <<monitor_vars, manual_vars, sockets>>

\* websocket_endpoint, lines 494-498: ws_manager.disconnect(websocket) when
\* the client's socket closes
ClientDisconnect(websocket) ==
    /\ websocket \in Range(active_connections)
    /\ active_connections' = RemoveFirst(active_connections, websocket)
    /\ stayed' = stayed \ {websocket}
    /\ UNCHANGED <<disk_vars, now, handled, config, recently_renamed>>
    /\ UNCHANGED <<handler_vars, bc_message, bc_i, disconnected, ghost_vars>>
    /\ UNCHANGED <<matcher_vars, sanitizer_vars, monitor_vars, manual_vars, sockets>>

NextRegistry ==
    \/ \E w \in Observers : ClientConnect(w)
    \/ \E w \in Observers : ClientDisconnect(w)
    \/ BroadcastNotification(ExampleMessage)
    \/ BroadcastSend
    \/ BroadcastPrune
    \/ Return

SpecRegistry == InitBroadcast /\ [][NextRegistry]_vars

\* C15: registry operations are serialized. The registry does not change
\* between two steps of one broadcast, and when a broadcast is over, every
\* observer that stayed registered from its start to its end was sent the
\* event exactly once (or its delivery was tried once and failed).
C15_RegistrySerialized ==
    /\ [][(pc = "bcast" /\ pc' = "bcast" /\ bc_i' = bc_i)
            => active_connections' = active_connections]_vars
    /\ []((pc = "done" /\ emitted # <<>>) =>
            LET sent == emitted[Len(emitted)]
            IN  \A w \in sent.stayed :
                    received[w] = <<sent.type>> \/ w \in sent.failed)


\* ---------------------------------------------------------------------------
\* Placement called a second time with the arguments of a call that moved the
\* file: _sort_file_by_url(src_path, filename, source_url), lines 206-254
\* ---------------------------------------------------------------------------

\* the second call, made where the first one returned the new path
RetryPlacement ==
    /\ pc = "should_rename"
    /\ ops # <<>>
    /\ ops[Len(ops)] = "move"
    /\ pc' = "sort"
    /\ ops' = Append(ops, "retry")
    /\ UNCHANGED <<disk_vars, now, handled, config, recently_renamed>>
    /\ UNCHANGED <<active_connections, src_path, current_path, source_url, new_name>>
    /\ UNCHANGED <<bc_vars, emitted, received, seen, matcher_vars, sanitizer_vars>>
    /\ UNCHANGED <<monitor_vars, manual_vars, sockets>>

NextRetry ==
    \/ \E o \in Origins : CreateFile(o)
    \/ \E p \in Paths : OnCreated(p, FALSE)
    \/ GetMetadata
    \/ SortFileByUrl
    \/ BroadcastPrune
    \/ RetryPlacement
    \/ ShouldRenameFile
    \/ RenameWithAI
    \/ RenameOnDisk
    \/ Return

SpecRetry == Init /\ [][NextRetry]_vars

\* C16: placement is idempotent under retry. A second call of placement for
\* a source file that the first call moved to the destination (the
\* destination directory being there) changes nothing on disk, raises no
\* error, returns no new path and starts no notification, whatever
\* remove_duplicate is.
C16_RetryIsNoOp ==
    [][(pc = "sort" /\ "retry" \in Range(ops)
            /\ ops'[Len(ops')] # "mkdir_failed")
        => /\ fs' = fs
           /\ pc' = "should_rename"
           /\ bc_message' = NoMessage
           /\ emitted' = emitted]_vars


\* C17: when the naming stage yields no candidate (no reply, an empty reply,
\* or a reply that sanitizes to the empty string), the handler is finished
\* with the file where it was: the disk and the suppression set are as they
\* were and no file_renamed notification is started or emitted.
C17_NoCandidateNoChange ==
    /\ [][(pc = "ai" /\ pc' # "ai" /\ ~Truthy(new_name'))
            => /\ pc' = "done"
               /\ fs' = fs
               /\ recently_renamed' = recently_renamed
               /\ bc_message' = NoMessage
               /\ emitted' = emitted]_vars
    /\ []("no_name" \in Range(ops)
            => /\ pc = "done"
               /\ ~Truthy(new_name)
               /\ recently_renamed = seen.suppression
               /\ \A k \in DOMAIN emitted : emitted[k].type # "file_renamed")

\* C17 happens: a file moved into a rename directory, the backend's answer
\* sanitized to the empty string, the file still under its name
C17_EmptyCandidate ==
    /\ pc = "done"
    /\ "move" \in Range(ops)
    /\ "no_name" \in Range(ops)
    /\ new_name = <<>>
    /\ fs[current_path] # 0
    /\ current_path = [dir |-> S1, name |-> DownloadName]


\* ---------------------------------------------------------------------------
\* Downloads in progress: the browser writes "lec.crdownload" (".tmp",
\* ".part") into the watched directory and renames it when it is complete
\* ---------------------------------------------------------------------------

\* the watched directory is a rename directory too
RenameInPlaceConfig == [DefaultConfig EXCEPT !.rename = <<DL, S1>>]

InitTransient ==
    /\ MatcherIdle
    /\ SanitizerIdle
    /\ SystemInit({DefaultConfig, RenameInPlaceConfig})

\* a browser starts a download into the watched directory
StartDownload(o, p) ==
    /\ pc = "idle"
    /\ created < MaxFiles
    /\ fs[p] = 0
    /\ created' = created + 1
    /\ fs' = [fs EXCEPT ![p] = created + 1]
    /\ origin' = [origin EXCEPT ![created + 1] = o]
    /\ UNCHANGED <<now, handled, config, recently_renamed, active_connections>>
    /\ UNCHANGED <<handler_vars, bc_vars, ghost_vars, matcher_vars, sanitizer_vars>>
    /\ UNCHANGED <<monitor_vars, manual_vars, sockets>>

\* the download is complete: the browser gives the file its name
FinishDownload(p) ==
    /\ pc = "idle"
    /\ fs[p] # 0
    /\ fs[[dir |-> DL, name |-> DownloadName]] = 0
    /\ fs' = [fs EXCEPT ![p] = 0, ![[dir |-> DL, name |-> DownloadName]] = fs[p]]
    /\ UNCHANGED <<origin, created, now, handled, config, recently_renamed>>
    /\ UNCHANGED <<active_connections, handler_vars, bc_vars, ghost_vars>>
    /\ UNCHANGED <<matcher_vars, sanitizer_vars, monitor_vars, manual_vars, sockets>>

NextTransient ==
    \/ \E o \in {OriginDirect, None}, p \in TransientPaths : StartDownload(o, p)
    \/ \E p \in TransientPaths : FinishDownload(p)
    \/ \E w \in PipelineObservers : Connect(w)
    \/ \E p \in TransientPaths \cup {[dir |-> DL, name |-> DownloadName]} :
            OnCreated(p, FALSE)
    \/ GetMetadata
    \/ SortFileByUrl
    \/ BroadcastSend
    \/ BroadcastPrune
    \/ ShouldRenameFile
    \/ RenameWithAI
    \/ RenameOnDisk
    \/ Return

SpecTransient == InitTransient /\ [][NextTransient]_vars

\* C18: a creation notification for a file whose name ends in .crdownload,
\* .tmp or .part is ignored entirely: the handler is finished at once, with
\* no provenance lookup, no move, no deletion, no rename, the suppression set
\* and the registry as they were, and nothing sent to any observer.
C18_TransientIgnored ==
    /\ [][(pc = "idle" /\ src_path'.name.ext \in TransientExts)
            => /\ pc' = "done"
               /\ fs' = fs
               /\ recently_renamed' = recently_renamed
               /\ active_connections' = active_connections
               /\ bc_message' = NoMessage
               /\ ops' = <<>>
               /\ emitted' = <<>>
               /\ \A w \in Observers : received'[w] = <<>>]_vars
    /\ []((pc # "idle" /\ src_path.name.ext \in TransientExts)
            => /\ pc = "done"
               /\ seen.early
               /\ ops = <<>>
               /\ emitted = <<>>
               /\ \A w \in Observers : received[w] = <<>>
               /\ recently_renamed = seen.suppression
               /\ fs[src_path] = seen.src_file)

\* C18 happens: the notification was for a download in progress that is on
\* the disk with a provenance a rule routes, in a directory that is a rename
\* directory, and an observer is registered
C18_PartialDownloadSeen ==
    /\ pc = "done"
    /\ src_path.name.ext = "crdownload"
    /\ fs[src_path] # 0
    /\ origin[fs[src_path]] = OriginDirect
    /\ config = RenameInPlaceConfig
    /\ active_connections # <<>>


\* C19: a creation notification that hits a routing skip condition (no
\* provenance found; or no rule matches the provenance directly and the
\* fallback on the domain label finds no rule either) leaves the file in
\* place: the routing step changes nothing on disk, creates no directory,
\* starts no notification and raises nothing, and the handler goes on to the
\* rename check with the path it was notified of.
C19_RoutingSkipLeavesFile ==
    /\ [][(pc = "mdls" /\ pc' # "mdls" /\ ~Truthy(source_url'))
            => /\ pc' = "should_rename"
               /\ fs' = fs
               /\ bc_message' = NoMessage
               /\ emitted' = emitted]_vars
    /\ [][(/\ pc = "sort"
           /\ pc' # "sort"
           /\ ~Truthy(match_url_to_destination(source_url, config.url))
           /\ ~Truthy(FallbackLoop(get_domain_name(source_url, 1), config.url, 1)))
            => /\ pc' = "should_rename"
               /\ fs' = fs
               /\ ops' = Append(ops, "no_route")
               /\ bc_message' = NoMessage
               /\ emitted' = emitted
               /\ current_path' = src_path]_vars
    /\ []((pc \notin {"idle", "mdls", "sort"} /\ ~seen.early
                /\ (~Truthy(source_url) \/ "no_route" \in Range(ops)))
            => /\ pc # "raised"
               /\ Range(ops) \cap {"mkdir", "move", "dup", "remove", "mkdir_failed",
                                   "move_failed", "remove_failed"} = {}
               /\ \A k \in DOMAIN emitted : emitted[k].type # "file_moved"
               /\ pc \in {"should_rename", "ai", "rename"}
                    => (current_path = src_path /\ fs[src_path] = seen.src_file))

\* C19 happens: a file with a provenance that no rule and no fallback routes
\* was handled to the end and is where it was created
C19_UnroutedFileStays ==
    /\ pc = "done"
    /\ source_url = OriginNoRule
    /\ "no_route" \in Range(ops)
    /\ current_path = src_path
    /\ fs[src_path] # 0
    /\ fs[src_path] = seen.src_file

\* C19 happens: a file without provenance was handled to the end and is
\* where it was created
C19_NoProvenanceFileStays ==
    /\ pc = "done"
    /\ source_url = None
    /\ ops = <<"mdls", "not_eligible">>
    /\ fs[src_path] # 0
    /\ origin[fs[src_path]] = None


\* C20: a manual rename for a path that does not exist fails with the
\* not-found condition and has no other effect: the request goes from the
\* existence check straight to the 404 response, the naming backend is not
\* called, and neither step of the request changes the disk, the suppression
\* set or the registry or starts a notification.
C20_MissingPathNotFound ==
    /\ [][(r_pc = "idle" /\ r_pc' # "idle" /\ fs[r_path'] = 0)
            => r_pc' = "not_found"]_vars
    /\ [][r_pc = "not_found" => r_pc' \in {"not_found", "idle"}]_vars
    /\ [][((r_pc = "idle" /\ r_pc' = "not_found")
                \/ (r_pc = "not_found" /\ r_pc' = "idle"))
            => /\ fs' = fs
               /\ recently_renamed' = recently_renamed
               /\ active_connections' = active_connections
               /\ bc_message' = bc_message
               /\ emitted' = emitted
               /\ received' = received]_vars
    /\ [](r_pc = "not_found" => (r_name = None /\ r_new = NoPath))

\* C20 happens: the request named the path of a download that the watcher
\* had moved away; the file is under its new path and the answer is not-found
C20_RequestAfterMove ==
    /\ r_pc = "not_found"
    /\ r_path = [dir |-> DL, name |-> DownloadName]
    /\ fs[r_path] = 0
    /\ fs[[dir |-> S1, name |-> DownloadName]] # 0


\* ---------------------------------------------------------------------------
\* The monitor stopped and started (POST /api/stop-monitor, /api/start-monitor)
\* and reconfigured (PUT /api/config) in any order
\* ---------------------------------------------------------------------------

\* a configuration that also watches the first destination
WatchBothConfig == [DefaultConfig EXCEPT !.watchlist = {DL, S1}]

MonitorConfigs == {DefaultConfig, AltConfig, WatchBothConfig}

\* main(), lines 546-552: the monitor is started with the loaded setting
InitMonitor ==
    /\ MatcherIdle
    /\ SanitizerIdle
    /\ SystemInit({DefaultConfig})

\* FileMonitor.stop, lines 349-355: observer.join() returns once the handler
\* at work has returned or died; the observer and its handler are dropped
StopMonitor ==
    /\ is_running
    /\ ~restarting
    /\ pc \in {"idle", "raised"}
    /\ is_running' = FALSE
    /\ pc' = "idle"
    /\ src_path' = NoPath
    /\ current_path' = NoPath
    /\ source_url' = None
    /\ new_name' = None
    /\ ops' = <<>>
    /\ emitted' = <<>>
    /\ received' = [w \in Observers |-> <<>>]
    /\ seen' = NoSeen
    /\ UNCHANGED <<disk_vars, now, handled, config, recently_renamed>>
    /\ UNCHANGED <<active_connections, setting, restarting>>
    /\ UNCHANGED <<bc_vars, matcher_vars, sanitizer_vars, manual_vars, sockets>>

\* FileMonitor.start, lines 331-346, with the monitor stopped: a new observer
\* and a new NewFileHandler(config=self.config), whose recently_renamed is a
\* new empty set (lines 170-173)
StartMonitor ==
    /\ ~is_running
    /\ is_running' = TRUE
    /\ config' = setting
    /\ recently_renamed' = {}
    /\ UNCHANGED <<disk_vars, now, handled, active_connections, setting, restarting>>
    /\ UNCHANGED <<handler_vars, bc_vars, ghost_vars>>
    /\ UNCHANGED <<matcher_vars, sanitizer_vars, manual_vars, sockets>>

NextMonitor ==
    \/ CreateFile(OriginDirect)
    \/ \E p \in RequestPaths : OnCreated(p, FALSE)
    \/ GetMetadata
    \/ SortFileByUrl
    \/ BroadcastPrune
    \/ ShouldRenameFile
    \/ RenameWithAI
    \/ RenameOnDisk
    \/ Return
    \/ \E new_config \in MonitorConfigs : UpdateConfig(new_config)
    \/ RestartMonitor
    \/ StopMonitor
    \/ StartMonitor

SpecMonitor == InitMonitor /\ [][NextMonitor]_vars

\* C21: a configuration update preserves the monitoring status. An update
\* does not change whether the monitor runs; with the monitor running a
\* restart follows, after which the monitor runs with a handler bound to the
\* new configuration; with the monitor stopped no restart follows, the
\* monitor stays stopped, and the next start binds the handler to the
\* configuration of the last update.
C21_UpdateKeepsMonitoringStatus ==
    /\ [][setting' # setting
            => (is_running' = is_running /\ restarting' = is_running)]_vars
    /\ [][(restarting /\ ~restarting')
            => (is_running /\ is_running' /\ config' = setting /\ setting' = setting)]_vars
    /\ [][(~is_running /\ is_running')
            => (config' = setting /\ setting' = setting)]_vars
    /\ [][is_running' # is_running => setting' = setting]_vars
    /\ []((is_running /\ ~restarting) => config = setting)
    /\ [](restarting => is_running)

\* C21 happens: the configuration was replaced, watch list included, while
\* the monitor was stopped; the monitor is still stopped
C21_UpdatedWhileStopped ==
    /\ ~is_running
    /\ ~restarting
    /\ setting = WatchBothConfig
    /\ config = DefaultConfig

\* C21 happens: the configuration was replaced while the monitor ran, and the
\* restarted monitor handles an event in the directory only the new
\* configuration watches
C21_RestartedWithNewWatches ==
    /\ is_running
    /\ ~restarting
    /\ config = WatchBothConfig
    /\ pc = "done"
    /\ src_path.dir = S1
    /\ fs[src_path] # 0


\* ---------------------------------------------------------------------------
\* The destination of a provenance, direct match and fallback
\* (_sort_file_by_url, lines 212-221), over hosts of zero to four labels
\* ---------------------------------------------------------------------------

\* hosts e.c, d.e.c and a.d.e.c; a host of one label; a text without scheme
\* and authority
FallbackOrigins ==
    { <<"h", ":", "/", "/", "e", ".", "c", "/", "x">>,
      <<"h", ":", "/", "/", "d", ".", "e", ".", "c", "/", "x">>,
      <<"h", ":", "/", "/", "a", ".", "d", ".", "e", ".", "c", "/", "x">>,
      <<"h", ":", "/", "/", "e", "/", "x">>,
      <<"e", ".", "c", "/", "x">> }

FallbackPatterns ==
    { <<"E", ".", "c", "/", "q">>,
      <<"c", "/", "z">>,
      <<"d", "/", "y">> }

InitFallback ==
    /\ m_url \in FallbackOrigins
    /\ m_schemas = <<>>
    /\ m_result = Unset
    /\ SanitizerIdle
    /\ SystemInit({DefaultConfig})

\* destination = match_url_to_destination(...), then the fallback (lines
\* 212-221)
RouteUrl ==
    /\ m_result = Unset
    /\ m_result' = RouteDestination(m_url, m_schemas)
    /\ UNCHANGED <<m_url, m_schemas, sanitizer_vars, disk_vars, now, handled, config>>
    /\ UNCHANGED <<recently_renamed, active_connections, handler_vars, bc_vars, ghost_vars>>
    /\ UNCHANGED <<monitor_vars, manual_vars, sockets>>

NextFallback ==
    \/ \E pattern \in FallbackPatterns, destination \in {S1, S2} :
            AddRule(pattern, destination)
    \/ RouteUrl

SpecFallback == InitFallback /\ [][NextFallback]_vars

\* C22: when no rule matches directly and the host has at least two labels,
\* the fallback works with the label immediately left of the top-level
\* domain, whatever the number of labels: the destination is that of the
\* first rule whose pattern contains that label (case-insensitively), and
\* absent when there is no such rule.
C22_FallbackUsesSecondLevelLabel ==
    LET parts == Split(Netloc(m_url), ".")
    IN  (/\ m_result # Unset
         /\ Len(parts) >= 2
         /\ ~Truthy(match_url_to_destination(m_url, m_schemas)))
            => m_result = FallbackLoop(parts[Len(parts) - 1], m_schemas, 1)


\* C25: when the direct match fails and the origin has an empty host (a text
\* without scheme and authority), routing yields absent whatever the rules
\* are: the fallback selects no rule.
C25_EmptyHostRoutesNowhere ==
    (/\ m_result # Unset
     /\ Netloc(m_url) = <<>>
     /\ ~Truthy(match_url_to_destination(m_url, m_schemas)))
        => m_result = None


\* ---------------------------------------------------------------------------
\* Naming a PDF: text extraction, then the naming backend or the OCR backend
\* (ollama_api.rename_pdf_with_ocr, file_extractor.extract_text_from_pdf)
\* ---------------------------------------------------------------------------

\* extracted text shorter than this counts as a scanned document
MinTextLen == 50

\* page text of a PDF: none, one character short of the threshold, the
\* threshold, and text with blanks around it
PdfTexts ==
    { <<>>,
      [i \in 1..(MinTextLen - 1) |-> "x"],
      [i \in 1..MinTextLen |-> "x"],
      <<" ">> \o [i \in 1..(MinTextLen - 1) |-> "x"] \o <<" ">> }

\* extract_text_from_pdf(file_path), lines 14-34: None when pdfplumber raises
\* and when the stripped text is shorter than the threshold
extract_text_from_pdf(opened, page_text) ==
    IF ~opened THEN None
    ELSE LET full_text == Strip(page_text, {" ", "\n"})
         IN  IF Len(full_text) < MinTextLen THEN None ELSE full_text

\* rename_pdf_with_ocr(pdf_path), lines 119-155: the name the backend gave
\* (None on any failure) and the requests made, in order. ocr_content is the
\* OCR backend's answer (None when the chat call raises), reply the naming
\* backend's.
rename_pdf_with_ocr(opened, page_text, ocr_content, reply) ==
    LET text_content == extract_text_from_pdf(opened, page_text)
    IN  IF Truthy(text_content)
        THEN [name |-> reply, calls |-> <<"naming">>]
        ELSE IF ~Truthy(ocr_content)
             THEN [name |-> None, calls |-> <<"ocr">>]
             ELSE [name |-> reply, calls |-> <<"ocr", "naming">>]

\* what the extraction did, as a tag of ops
ExtractionTag(opened, page_text) ==
    IF ~opened THEN "extract_failed"
    ELSE IF extract_text_from_pdf(opened, page_text) = None THEN "extract_short"
    ELSE "extract_text"

\* _rename_file_with_ai, lines 284-287 and 303-304, for a PDF, with
\* rename_file_with_ai (ollama_api lines 158-191) followed into
\* rename_pdf_with_ocr; a file that is not there cannot be opened
RenamePdfWithAI ==
    /\ pc = "ai"
    /\ get_file_type(current_path) = "pdf"
    /\ \E opened \in BOOLEAN, page_text \in PdfTexts,
          ocr_content \in {None, <<>>, <<"t">>}, reply \in AIReplies :
        /\ opened => fs[current_path] # 0
        /\ LET rename_result == rename_pdf_with_ocr(opened, page_text, ocr_content, reply)
               sanitized_name == IF Truthy(rename_result.name)
                                 THEN sanitize_filename(rename_result.name)
                                 ELSE None
           IN  /\ new_name' = sanitized_name
               /\ IF Truthy(sanitized_name)
                  THEN /\ pc' = "rename"
                       /\ ops' = ops \o <<ExtractionTag(opened, page_text)>>
                                     \o rename_result.calls \o <<"named">>
                  ELSE /\ pc' = "done"
                       /\ ops' = ops \o <<ExtractionTag(opened, page_text)>>
                                     \o rename_result.calls \o <<"no_name">>
    /\ UNCHANGED <<disk_vars, now, handled, config, recently_renamed, active_connections>>
    /\ UNCHANGED <<src_path, current_path, source_url>>
    /\ UNCHANGED <<bc_vars, emitted, received, seen, matcher_vars, sanitizer_vars>>
    /\ UNCHANGED <<monitor_vars, manual_vars, sockets>>

NextPdf ==
    \/ CreateFile(OriginDirect)
    \/ \E p \in RequestPaths : OnCreated(p, FALSE)
    \/ GetMetadata
    \/ SortFileByUrl
    \/ BroadcastPrune
    \/ ShouldRenameFile
    \/ RenamePdfWithAI
    \/ RenameOnDisk
    \/ Return

SpecPdf == InitManual /\ [][NextPdf]_vars

\* C23: for a PDF the OCR backend is asked only after an extraction that
\* succeeded and returned text below the threshold; after an extraction that
\* failed nothing is asked of the OCR backend or the naming backend and no
\* rename is attempted.
C23_OcrOnlyAfterShortText ==
    /\ "ocr" \in Range(ops) => "extract_short" \in Range(ops)
    /\ "extract_failed" \in Range(ops)
            => Range(ops) \cap {"ocr", "naming", "named", "renamed", "rename_failed"} = {}


\* C24: suppression entries live for the process lifetime. An entry leaves
\* the suppression set only when the guard of the rename stage uses it up for
\* a notification of its path; stopping and starting the monitor, or its
\* restart by a configuration update, leaves every entry in the set.
C24_EntriesSurviveRestart ==
    [][pc # "should_rename" => recently_renamed \subseteq recently_renamed']_vars


\* ---------------------------------------------------------------------------
\* Each client's websocket_endpoint (lines 477-498) beside the registry:
\* sockets[w] is "open" while the endpoint of w waits in its receive loop,
\* "closed" before it connected and after it returned, "raised" after it
\* ended with an exception. Registry operations are taken one at a time here.
\* ---------------------------------------------------------------------------

\* websocket_endpoint, line 486: ws_manager.connect(websocket)
SocketConnect(websocket) ==
    /\ pc = "idle"
    /\ sockets[websocket] = "closed"
    /\ websocket \notin Range(active_connections)
    /\ active_connections' = Append(active_connections, websocket)
    /\ sockets' = [sockets EXCEPT ![websocket] = "open"]
    /\ UNCHANGED <<disk_vars, now, handled, config, recently_renamed>>
    /\ UNCHANGED <<handler_vars, bc_vars, ghost_vars, matcher_vars, sanitizer_vars>>
    /\ UNCHANGED <<monitor_vars, manual_vars>>

\* websocket_endpoint, lines 494-498: receive_text raises when the client's
\* socket closes and the handler calls ws_manager.disconnect(websocket);
\* list.remove (line 66) raises ValueError for a connection not in the list
SocketClose(websocket) ==
    /\ pc = "idle"
    /\ sockets[websocket] = "open"
    /\ IF websocket \in Range(active_connections)
       THEN /\ active_connections' = RemoveFirst(active_connections, websocket)
            /\ sockets' = [sockets EXCEPT ![websocket] = "closed"]
       ELSE /\ sockets' = [sockets EXCEPT ![websocket] = "raised"]
            /\ UNCHANGED active_connections
    /\ UNCHANGED <<disk_vars, now, handled, config, recently_renamed>>
    /\ UNCHANGED <<handler_vars, bc_vars, ghost_vars, matcher_vars, sanitizer_vars>>
    /\ UNCHANGED <<monitor_vars, manual_vars>>

NextSocket ==
    \/ \E w \in Observers : SocketConnect(w)
    \/ \E w \in Observers : SocketClose(w)
    \/ BroadcastNotification(ExampleMessage)
    \/ BroadcastSend
    \/ BroadcastPrune
    \/ Return

SpecSocket == InitBroadcast /\ [][NextSocket]_vars

\* C26: deregistering an observer always succeeds. After any sequence of
\* connects, broadcasts and disconnects no disconnect has raised, also not
\* the disconnect of an observer that a broadcast pruned before; every
\* observer in the registry has its socket open; and after a broadcast no
\* observer whose delivery failed is in the registry.
C26_DisconnectNeverRaises ==
    /\ \A w \in Observers : sockets[w] # "raised"
    /\ \A i \in DOMAIN active_connections : sockets[active_connections[i]] = "open"
    /\ (pc = "done" /\ emitted # <<>>)
            => Range(active_connections) \cap emitted[Len(emitted)].failed = {}


\* C27: the manual rename answers success=true only if the file was renamed
\* on disk, the new name being the file's name: whenever the answer is
\* success, rename_file_on_disk returned a path, and the step that produced
\* the answer moved the requested file to that path.
C27_SuccessMeansRenamed ==
    /\ [][(r_pc = "renaming" /\ r_pc' = "succeeded")
            => /\ r_new' # NoPath
               /\ fs[r_path] # 0
               /\ fs'[r_new'] = fs[r_path]]_vars
    /\ [](r_pc = "succeeded" => r_new # NoPath)


\* C28: with remove_duplicate off and a file of the same name at the
\* destination (another path than the source), once the notification has been
\* handled to the end the source file is still at its path under its name
\* and nothing has been emitted, whatever the rename directories are.
C28_DuplicateSourceUntouched ==
    (/\ pc = "done"
     /\ ~config.remove_duplicate
     /\ "dup" \in Range(ops)
     /\ seen.dest_path # src_path)
        => /\ fs[src_path] = seen.src_file
           /\ emitted = <<>>

=============================================================================
